---- MODULE Spec2Model ----
(***************************************************************************)
(* Model of the LINE message forwarder (src/app.py): the webhook endpoint  *)
(* /callback, the dispatch of the events of a verified body, and the       *)
(* forwarding handler LineBot.process_message with its filter              *)
(* LineBot.should_forward_message.                                         *)
(*                                                                         *)
(* Texts are sequences of one-character strings.  A character outside      *)
(* ASCII is written as its code point ("U+3010" is the opening bracket of  *)
(* the start keyword); a literal part of a message template is one token.  *)
(***************************************************************************)
EXTENDS Integers, Sequences, FiniteSets, TLC

VARIABLES
    config,        \* the BotConfig instance of the module-level bot
    pc,            \* pc[r]: where the handling of request r stands
    request,       \* request[r]: the body and X-Line-Signature header of request r
    idx,           \* idx[r]: index of the event of the body being dispatched
    locals,        \* locals[r]: source_group, sender_profile, target_group of process_message
    calls,         \* calls[r]: the platform API calls made while handling request r
    logs,          \* logs[r]: the records request r wrote to the logger
    outcomes,      \* outcomes[r]: how the handling of each dispatched event ended
    status,        \* status[r]: HTTP status of the response to request r (0: none yet)
    filter_text,   \* argument of a direct call of should_forward_message
    filter_pc,     \* "call" before that call, "returned" after it
    filter_result  \* its return value

vars == <<config, pc, request, idx, locals, calls, logs, outcomes, status,
          filter_text, filter_pc, filter_result>>

reqvars == <<config, pc, request, idx, locals, calls, logs, outcomes, status>>

filtervars == <<filter_text, filter_pc, filter_result>>

(***************************************************************************)
(* Bounds of the model.                                                    *)
(***************************************************************************)
\* Events in one webhook body.
MaxEvents == 2

\* Webhook deliveries (POST /callback requests).
NumRequests == 2

\* Chunks concatenated into the argument of a direct filter call.
MaxChunks == 3

Requests == 1..NumRequests

(***************************************************************************)
(* Text: str.lower, str.startswith, the substring test `in`.               *)
(***************************************************************************)
UpperToLower ==
    ("A" :> "a") @@ ("B" :> "b") @@ ("C" :> "c") @@ ("D" :> "d") @@ ("E" :> "e") @@
    ("F" :> "f") @@ ("G" :> "g") @@ ("H" :> "h") @@ ("I" :> "i") @@ ("J" :> "j") @@
    ("K" :> "k") @@ ("L" :> "l") @@ ("M" :> "m") @@ ("N" :> "n") @@ ("O" :> "o") @@
    ("P" :> "p") @@ ("Q" :> "q") @@ ("R" :> "r") @@ ("S" :> "s") @@ ("T" :> "t") @@
    ("U" :> "u") @@ ("V" :> "v") @@ ("W" :> "w") @@ ("X" :> "x") @@ ("Y" :> "y") @@
    ("Z" :> "z")

lower_char(c) == IF c \in DOMAIN UpperToLower THEN UpperToLower[c] ELSE c

lower(s) == [i \in 1..Len(s) |-> lower_char(s[i])]

startswith(s, prefix) ==
    /\ Len(prefix) <= Len(s)
    /\ SubSeq(s, 1, Len(prefix)) = prefix

\* Python's `sub in s` on strings.
contains(sub, s) ==
    \E i \in 0..(Len(s) - Len(sub)) : SubSeq(s, i + 1, i + Len(sub)) = sub

(***************************************************************************)
(* BotConfig.  The identifiers and the secret come from the environment;   *)
(* the keywords are the literals of the class.                             *)
(***************************************************************************)
\* '[U+3010]Cashier Notifier[U+3011]'
START_KEYWORD ==
    <<"U+3010", "C", "a", "s", "h", "i", "e", "r", " ",
      "N", "o", "t", "i", "f", "i", "e", "r", "U+3011">>

\* ['[U+932F][U+8AA4][U+78BC][U+FF1A]', 'video:']
OTHER_KEYWORDS ==
    << <<"U+932F", "U+8AA4", "U+78BC", "U+FF1A">>,
       <<"v", "i", "d", "e", "o", ":">> >>

BotConfig ==
    [ ACCESS_TOKEN    |-> "access-token",
      CHANNEL_SECRET  |-> "channel-secret",
      SOURCE_GROUP_ID |-> "Csource",
      TARGET_GROUP_ID |-> "Ctarget",
      START_KEYWORD   |-> START_KEYWORD,
      OTHER_KEYWORDS  |-> OTHER_KEYWORDS ]

(***************************************************************************)
(* LineBot.should_forward_message                                          *)
(***************************************************************************)
\* all(keyword.lower() in message_text.lower() for keyword in keywords)
all_keywords_in(keywords, message_text) ==
    \A n \in 1..Len(keywords) : contains(lower(keywords[n]), lower(message_text))

\* A filter that lowers the keywords but compares them with the text as written.
should_forward_message_as_written(message_text) ==
    IF ~startswith(message_text, lower(config.START_KEYWORD))
    THEN FALSE
    ELSE \A n \in 1..Len(config.OTHER_KEYWORDS) :
            contains(lower(config.OTHER_KEYWORDS[n]), message_text)

should_forward_message(message_text) ==
    IF ~startswith(lower(message_text), lower(config.START_KEYWORD))
    THEN FALSE
    ELSE all_keywords_in(config.OTHER_KEYWORDS, message_text)

(***************************************************************************)
(* Webhook events, bodies and signatures.                                  *)
(***************************************************************************)
\* The start keyword in lower case, then both required substrings, the
\* second in upper case and before the first.
TextLowerStart ==
    lower(START_KEYWORD) \o <<"V", "I", "D", "E", "O", ":", "7", " ">>
        \o OTHER_KEYWORDS[1] \o <<"5">>

\* The start keyword in upper case, then both required substrings.
TextUpperStart ==
    <<"U+3010", "C", "A", "S", "H", "I", "E", "R", " ",
      "N", "O", "T", "I", "F", "I", "E", "R", "U+3011">>
        \o OTHER_KEYWORDS[1] \o <<"4">> \o OTHER_KEYWORDS[2]

\* The start keyword and the first required substring only.
TextNoVideo == START_KEYWORD \o OTHER_KEYWORDS[1] \o <<"5">>

\* Both required substrings and the start keyword, which is not at the start.
TextLateStart == <<"x">> \o START_KEYWORD \o OTHER_KEYWORDS[1] \o OTHER_KEYWORDS[2]

Event(type, message_type, text, source_type, group_id, user_id, reply_token) ==
    [ type        |-> type,
      message     |-> [type |-> message_type, text |-> text],
      source      |-> [type |-> source_type, group_id |-> group_id, user_id |-> user_id],
      reply_token |-> reply_token ]

\* group_id "" stands for a source object that has no group_id attribute.
EvForward1   == Event("message", "text", TextLowerStart, "group", BotConfig.SOURCE_GROUP_ID, "U1", "rt1")
EvForward2   == Event("message", "text", TextUpperStart, "group", BotConfig.SOURCE_GROUP_ID, "U2", "rt2")
EvNoVideo    == Event("message", "text", TextNoVideo, "group", BotConfig.SOURCE_GROUP_ID, "U1", "rt3")
EvLateStart  == Event("message", "text", TextLateStart, "group", BotConfig.SOURCE_GROUP_ID, "U2", "rt4")
EvOtherGroup == Event("message", "text", TextLowerStart, "group", "Cother", "U1", "rt5")
EvUser       == Event("message", "text", TextUpperStart, "user", "", "U1", "rt6")
EvRoom       == Event("message", "text", TextLowerStart, "room", "", "U2", "rt7")
EvImage      == Event("message", "image", <<>>, "group", BotConfig.SOURCE_GROUP_ID, "U1", "rt8")
EvFollow     == Event("follow", "none", <<>>, "user", "", "U1", "rt9")

Events ==
    {EvForward1, EvForward2, EvNoVideo, EvLateStart, EvOtherGroup, EvUser, EvRoom, EvImage,
     EvFollow}

RECURSIVE EventSeqs(_)
EventSeqs(n) ==
    IF n = 0 THEN {<<>>}
    ELSE LET shorter == EventSeqs(n - 1)
         IN  shorter \cup {Append(s, e) : s \in shorter, e \in Events}

\* A request body: JSON that parses into events, or text that does not parse.
EmptyBody == [well_formed |-> TRUE, events |-> <<>>]

MalformedBody == [well_formed |-> FALSE, events |-> <<>>]

Bodies == {[well_formed |-> TRUE, events |-> s] : s \in EventSeqs(MaxEvents)} \cup {MalformedBody}

\* The platform's signature of a body under a channel secret (base64 HMAC-SHA256),
\* kept symbolic: two signatures are equal iff secret and body are.
Sign(secret, body) == [key |-> secret, msg |-> body]

\* request.headers.get('X-Line-Signature', '') when the header is missing
NoSignature == [key |-> "", msg |-> EmptyBody]

\* The body as it was before a byte of it was changed on the way.
Untampered(body) == [body EXCEPT !.events = Append(@, EvImage)]

\* The signature headers a request with this body is sent with.
Signatures(body) ==
    { Sign(BotConfig.CHANNEL_SECRET, body),
      Sign(BotConfig.CHANNEL_SECRET, Untampered(body)),
      Sign("other-secret", body),
      NoSignature }

\* The signature check of WebhookHandler(config.CHANNEL_SECRET).handle.
validate_always(body, signature) == TRUE

validate(body, signature) == signature = Sign(config.CHANNEL_SECRET, body)

(***************************************************************************)
(* The platform's data, and the messages composed from it.                 *)
(***************************************************************************)
\* get_group_summary(group_id).group_name
group_name(group_id) ==
    CASE group_id = BotConfig.SOURCE_GROUP_ID -> <<"O", "p", "s">>
      [] group_id = BotConfig.TARGET_GROUP_ID -> <<"D", "e", "v">>
      [] OTHER -> <<"?">>

\* get_group_member_count(group_id)
member_count(group_id) ==
    CASE group_id = BotConfig.SOURCE_GROUP_ID -> 3
      [] group_id = BotConfig.TARGET_GROUP_ID -> 5
      [] OTHER -> 0

\* get_group_member_profile(group_id, user_id).display_name
display_name(group_id, user_id) ==
    CASE user_id = "U1" -> <<"A", "m", "y">>
      [] user_id = "U2" -> <<"B", "o">>
      [] OTHER -> <<"?">>

\* The literal parts of the templates, each one token:
\*   forward  "[U+8F49 U+767C U+8A0A U+606F]\nU+767C U+9001 U+8005 U+FF1A{sender}\nFromU+7FA4 U+7D44 U+FF1A{group}\nU+8A0A U+606F U+5167 U+5BB9 U+FF1A\n\n{text}"
\*   reply    "[U+8A0A U+606F U+5DF2 U+8F49 U+767C]\nU+767C U+9001 U+8005 U+FF1A{sender}\nToU+7FA4 U+7D44 U+FF1A{group}\nU+8A0A U+606F U+5167 U+5BB9 U+FF1A\n\n{text}"
templates ==
    [ forward |-> << "[U+8F49U+767CU+8A0AU+606F]\nU+767CU+9001U+8005U+FF1A",
                     "\nFromU+7FA4U+7D44U+FF1A",
                     "\nU+8A0AU+606FU+5167U+5BB9U+FF1A\n\n" >>,
      reply   |-> << "[U+8A0AU+606FU+5DF2U+8F49U+767C]\nU+767CU+9001U+8005U+FF1A",
                     "\nToU+7FA4U+7D44U+FF1A",
                     "\nU+8A0AU+606FU+5167U+5BB9U+FF1A\n\n" >> ]

\* A composition that takes the forward template whatever the message type.
create_message_text_forward_only(message_type, sender_name, group_name_, original_text) ==
    LET t == templates.forward
    IN  <<t[1]>> \o sender_name \o <<t[2]>> \o group_name_ \o <<t[3]>> \o original_text

create_message_text(message_type, sender_name, group_name_, original_text) ==
    LET t == templates[message_type]
    IN  <<t[1]>> \o sender_name \o <<t[2]>> \o group_name_ \o <<t[3]>> \o original_text

(***************************************************************************)
(* State of the handling of one request.                                   *)
(***************************************************************************)
NoRequest == [body |-> EmptyBody, signature |-> NoSignature]

NoGroup == [summary |-> <<>>, members_count |-> 0]

NoLocals ==
    [ group_summary  |-> <<>>,      \* group_summary inside get_group_info
      source_group   |-> NoGroup,
      sender_profile |-> <<>>,
      target_group   |-> NoGroup ]

\* The event handle_message was called with.
CurrentEvent(r) == request[r].body.events[idx[r]]

\* A platform API call of request r for its current event, and how it ended.
Call(r, op, arg, user, text, ok) ==
    [ev |-> idx[r], op |-> op, arg |-> arg, user |-> user, text |-> text, ok |-> ok]

Init ==
    /\ config = BotConfig
    /\ pc = [r \in Requests |-> "idle"]
    /\ request = [r \in Requests |-> NoRequest]
    /\ idx = [r \in Requests |-> 0]
    /\ locals = [r \in Requests |-> NoLocals]
    /\ calls = [r \in Requests |-> <<>>]
    /\ logs = [r \in Requests |-> <<>>]
    /\ outcomes = [r \in Requests |-> <<>>]
    /\ status = [r \in Requests |-> 0]
    /\ filter_text = <<>>
    /\ filter_pc = "idle"
    /\ filter_result = FALSE

(***************************************************************************)
(* callback(): POST /callback, up to the call of bot.handler.handle.       *)
(***************************************************************************)
Receive(r, body, signature) ==
    /\ pc[r] = "idle"
    /\ request' = [request EXCEPT ![r] = [body |-> body, signature |-> signature]]
    /\ logs' = [logs EXCEPT ![r] = Append(@, "INFO Received webhook")]
    /\ pc' = [pc EXCEPT ![r] = "callback"]
    /\ UNCHANGED <<config, idx, locals, calls, outcomes, status, filtervars>>

\* The except clauses in the other order: `except Exception` catches the
\* InvalidSignatureError as well.
InvalidSignature_caught_as_exception(r) ==
    /\ pc[r] = "callback"
    /\ ~validate(request[r].body, request[r].signature)
    /\ logs' = [logs EXCEPT ![r] = Append(@, "ERROR Webhook failed")]
    /\ status' = [status EXCEPT ![r] = 500]
    /\ pc' = [pc EXCEPT ![r] = "responded"]
    /\ UNCHANGED <<config, request, idx, locals, calls, outcomes, filtervars>>

\* handler.handle raises InvalidSignatureError: abort(400).
InvalidSignature(r) ==
    /\ pc[r] = "callback"
    /\ ~validate(request[r].body, request[r].signature)
    /\ logs' = [logs EXCEPT ![r] = Append(@, "ERROR Invalid signature")]
    /\ status' = [status EXCEPT ![r] = 400]
    /\ pc' = [pc EXCEPT ![r] = "responded"]
    /\ UNCHANGED <<config, request, idx, locals, calls, outcomes, filtervars>>

\* handler.handle raises another exception while parsing the body: abort(500).
ParseError(r) ==
    /\ pc[r] = "callback"
    /\ validate(request[r].body, request[r].signature)
    /\ ~request[r].body.well_formed
    /\ logs' = [logs EXCEPT ![r] = Append(@, "ERROR Webhook failed")]
    /\ status' = [status EXCEPT ![r] = 500]
    /\ pc' = [pc EXCEPT ![r] = "responded"]
    /\ UNCHANGED <<config, request, idx, locals, calls, outcomes, filtervars>>

\* handler.handle has verified and parsed the body and turns to its events.
Parsed(r) ==
    /\ pc[r] = "callback"
    /\ validate(request[r].body, request[r].signature)
    /\ request[r].body.well_formed
    /\ idx' = [idx EXCEPT ![r] = 1]
    /\ pc' = [pc EXCEPT ![r] = "handle"]
    /\ UNCHANGED <<config, request, locals, calls, logs, outcomes, status, filtervars>>

(***************************************************************************)
(* setup_handler: handle_message is registered for text message events.    *)
(***************************************************************************)
\* A handler registered for every message event, whatever its content.
is_text_message_any_content(event) == event.type = "message"

is_text_message(event) == event.type = "message" /\ event.message.type = "text"

\* The next event is a text message: handle_message calls process_message.
HandleMessage(r) ==
    /\ pc[r] = "handle"
    /\ idx[r] <= Len(request[r].body.events)
    /\ is_text_message(CurrentEvent(r))
    /\ pc' = [pc EXCEPT ![r] = "process_message"]
    /\ UNCHANGED <<config, request, idx, locals, calls, logs, outcomes, status, filtervars>>

\* The next event has no registered handler: it is passed over.
SkipEvent(r) ==
    /\ pc[r] = "handle"
    /\ idx[r] <= Len(request[r].body.events)
    /\ ~is_text_message(CurrentEvent(r))
    /\ outcomes' = [outcomes EXCEPT ![r] = Append(@, "NoHandler")]
    /\ idx' = [idx EXCEPT ![r] = @ + 1]
    /\ UNCHANGED <<config, pc, request, locals, calls, logs, status, filtervars>>

\* handler.handle returns after the last event: return 'OK'.
ReturnOK(r) ==
    /\ pc[r] = "handle"
    /\ idx[r] > Len(request[r].body.events)
    /\ status' = [status EXCEPT ![r] = 200]
    /\ pc' = [pc EXCEPT ![r] = "responded"]
    /\ UNCHANGED <<config, request, idx, locals, calls, logs, outcomes, filtervars>>

(***************************************************************************)
(* LineBot.process_message                                                 *)
(***************************************************************************)
\* process_message returns; handler.handle goes on with the next event.
Return(r, records) ==
    /\ logs' = [logs EXCEPT ![r] = @ \o records]
    /\ outcomes' = [outcomes EXCEPT ![r] = Append(@, "Done")]
    /\ locals' = [locals EXCEPT ![r] = NoLocals]
    /\ idx' = [idx EXCEPT ![r] = @ + 1]
    /\ pc' = [pc EXCEPT ![r] = "handle"]
    /\ UNCHANGED status

\* The try block without its except clause: the exception leaves
\* process_message and handler.handle and reaches callback's `except Exception`.
Raise_propagating(r, exc, records) ==
    /\ logs' = [logs EXCEPT ![r] = @ \o records \o <<"ERROR Webhook failed">>]
    /\ outcomes' = [outcomes EXCEPT ![r] = Append(@, "Raised")]
    /\ locals' = [locals EXCEPT ![r] = NoLocals]
    /\ status' = [status EXCEPT ![r] = 500]
    /\ pc' = [pc EXCEPT ![r] = "responded"]
    /\ UNCHANGED idx

\* An except clause that logs the exception and ends the dispatch of the body:
\* the events behind the one that failed are not handled.
Raise_skipping_rest(r, exc, records) ==
    /\ logs' = [logs EXCEPT ![r] = @ \o records \o <<"ERROR process_message failed">>]
    /\ outcomes' = [outcomes EXCEPT ![r] = Append(@, "Failed")]
    /\ locals' = [locals EXCEPT ![r] = NoLocals]
    /\ idx' = [idx EXCEPT ![r] = Len(request[r].body.events) + 1]
    /\ pc' = [pc EXCEPT ![r] = "handle"]
    /\ UNCHANGED status

\* An except clause that logs the exception and then waits instead of
\* returning: the handler stays where it is.
Raise_hanging(r, exc, records) ==
    /\ logs' = [logs EXCEPT ![r] = @ \o records \o <<"ERROR process_message failed">>]
    /\ pc' = [pc EXCEPT ![r] = "hung"]
    /\ UNCHANGED <<outcomes, locals, idx, status>>

\* An exception inside the try block: `except Exception` logs it, and
\* process_message returns.
Raise(r, exc, records) ==
    /\ logs' = [logs EXCEPT ![r] = @ \o records \o <<"ERROR process_message failed">>]
    /\ outcomes' = [outcomes EXCEPT ![r] = Append(@, "Failed")]
    /\ locals' = [locals EXCEPT ![r] = NoLocals]
    /\ idx' = [idx EXCEPT ![r] = @ + 1]
    /\ pc' = [pc EXCEPT ![r] = "handle"]
    /\ UNCHANGED status

\* The source check with `and` in the place of `or`.
source_guard_and(event) ==
    IF event.source.type = "user"
    THEN "AttributeError"
    ELSE "pass"

\* The source check without the comparison of the group identifier.
source_guard_any_group(event) ==
    IF event.source.type = "user"
    THEN "return"
    ELSE IF event.source.type # "group"
         THEN "AttributeError"
         ELSE "pass"

\* event.source.type == 'user' or event.source.group_id != SOURCE_GROUP_ID;
\* only a group source has a group_id attribute.
source_guard(event) ==
    IF event.source.type = "user"
    THEN "return"
    ELSE IF event.source.type # "group"
         THEN "AttributeError"
         ELSE IF event.source.group_id # config.SOURCE_GROUP_ID
              THEN "return"
              ELSE "pass"

SourceCheck(r) ==
    /\ pc[r] = "process_message"
    /\ LET guard == source_guard(CurrentEvent(r))
       IN  CASE guard = "return" -> Return(r, <<>>)
             [] guard = "pass" ->
                    /\ pc' = [pc EXCEPT ![r] = "filter"]
                    /\ UNCHANGED <<idx, locals, logs, outcomes, status>>
             [] OTHER -> Raise(r, guard, <<>>)
    /\ UNCHANGED <<config, request, calls, filtervars>>

\* The filter check that goes on whatever the filter says.
FilterCheck_ignored(r) ==
    /\ pc[r] = "filter"
    /\ pc' = [pc EXCEPT ![r] = "source_summary"]
    /\ UNCHANGED <<idx, locals, logs, outcomes, status>>
    /\ UNCHANGED <<config, request, calls, filtervars>>

\* The filter check of a handler that remembers what it forwarded: a message
\* whose reply token was answered while another request was handled is dropped.
FilterCheck_deduplicating(r) ==
    /\ pc[r] = "filter"
    /\ IF \/ ~should_forward_message(CurrentEvent(r).message.text)
          \/ \E q \in Requests \ {r} : \E k \in 1..Len(calls[q]) :
                 /\ calls[q][k].op = "reply_message"
                 /\ calls[q][k].arg = CurrentEvent(r).reply_token
       THEN Return(r, <<>>)
       ELSE /\ pc' = [pc EXCEPT ![r] = "source_summary"]
            /\ UNCHANGED <<idx, locals, logs, outcomes, status>>
    /\ UNCHANGED <<config, request, calls, filtervars>>

FilterCheck(r) ==
    /\ pc[r] = "filter"
    /\ IF ~should_forward_message(CurrentEvent(r).message.text)
       THEN Return(r, <<>>)
       ELSE /\ pc' = [pc EXCEPT ![r] = "source_summary"]
            /\ UNCHANGED <<idx, locals, logs, outcomes, status>>
    /\ UNCHANGED <<config, request, calls, filtervars>>

\* The order of the platform calls, with the reply before the push.
next_step_reply_first(step) ==
    CASE step = "source_summary" -> "source_count"
      [] step = "source_count"   -> "sender_profile"
      [] step = "sender_profile" -> "target_summary"
      [] step = "target_summary" -> "target_count"
      [] step = "target_count"   -> "reply_message"
      [] step = "reply_message"  -> "push_message"
      [] step = "push_message"   -> "return"

\* The order of the platform calls, without the reply.
next_step_without_reply(step) ==
    CASE step = "source_summary" -> "source_count"
      [] step = "source_count"   -> "sender_profile"
      [] step = "sender_profile" -> "target_summary"
      [] step = "target_summary" -> "target_count"
      [] step = "target_count"   -> "push_message"
      [] step = "push_message"   -> "return"
      [] step = "reply_message"  -> "return"

\* The order of the platform calls inside the `with ApiClient` block.
next_step(step) ==
    CASE step = "source_summary" -> "source_count"
      [] step = "source_count"   -> "sender_profile"
      [] step = "sender_profile" -> "target_summary"
      [] step = "target_summary" -> "target_count"
      [] step = "target_count"   -> "push_message"
      [] step = "push_message"   -> "reply_message"
      [] step = "reply_message"  -> "return"

\* A platform call whose failure is ignored: the handler goes on.
ApiStep_ignoring_failure(r, step, call, fetched, records) ==
    /\ pc[r] = step
    /\ calls' = [calls EXCEPT ![r] = Append(@, call)]
    /\ IF next_step(step) = "return"
       THEN Return(r, <<"INFO forwarded">>)
       ELSE /\ pc' = [pc EXCEPT ![r] = next_step(step)]
            /\ locals' = [locals EXCEPT ![r] = fetched]
            /\ UNCHANGED <<idx, logs, outcomes, status>>
    /\ UNCHANGED <<config, request, filtervars>>

\* One blocking platform call of the try block: when it returns, the handler
\* goes on with what it fetched; when it raises, the handler is left through
\* the except clause, after the records written on the way.
ApiStep(r, step, call, fetched, records) ==
    /\ pc[r] = step
    /\ calls' = [calls EXCEPT ![r] = Append(@, call)]
    /\ IF call.ok
       THEN IF next_step(step) = "return"
            THEN Return(r, <<"INFO forwarded">>)
            ELSE /\ pc' = [pc EXCEPT ![r] = next_step(step)]
                 /\ locals' = [locals EXCEPT ![r] = fetched]
                 /\ UNCHANGED <<idx, logs, outcomes, status>>
       ELSE Raise(r, "ApiException", records)
    /\ UNCHANGED <<config, request, filtervars>>

\* get_group_info(line_bot_api, event.source.group_id): api.get_group_summary
GetSourceSummary(r, ok) ==
    LET group_id == CurrentEvent(r).source.group_id
    IN  ApiStep(r, "source_summary",
                Call(r, "get_group_summary", group_id, "", <<>>, ok),
                [locals[r] EXCEPT !.group_summary = group_name(group_id)],
                <<"ERROR get_group_info failed">>)

\* get_group_info(line_bot_api, event.source.group_id): api.get_group_member_count
GetSourceMemberCount(r, ok) ==
    LET group_id == CurrentEvent(r).source.group_id
    IN  ApiStep(r, "source_count",
                Call(r, "get_group_member_count", group_id, "", <<>>, ok),
                [locals[r] EXCEPT
                    !.source_group = [summary |-> locals[r].group_summary,
                                      members_count |-> member_count(group_id)],
                    !.group_summary = <<>>],
                <<"ERROR get_group_info failed">>)

\* line_bot_api.get_group_member_profile(event.source.group_id, event.source.user_id)
GetSenderProfile(r, ok) ==
    LET source == CurrentEvent(r).source
    IN  ApiStep(r, "sender_profile",
                Call(r, "get_group_member_profile", source.group_id, source.user_id, <<>>, ok),
                [locals[r] EXCEPT
                    !.sender_profile = display_name(source.group_id, source.user_id)],
                <<>>)

\* get_group_info(line_bot_api, TARGET_GROUP_ID): api.get_group_summary
GetTargetSummary(r, ok) ==
    LET group_id == config.TARGET_GROUP_ID
    IN  ApiStep(r, "target_summary",
                Call(r, "get_group_summary", group_id, "", <<>>, ok),
                [locals[r] EXCEPT !.group_summary = group_name(group_id)],
                <<"ERROR get_group_info failed">>)

\* get_group_info(line_bot_api, TARGET_GROUP_ID): api.get_group_member_count
GetTargetMemberCount(r, ok) ==
    LET group_id == config.TARGET_GROUP_ID
    IN  ApiStep(r, "target_count",
                Call(r, "get_group_member_count", group_id, "", <<>>, ok),
                [locals[r] EXCEPT
                    !.target_group = [summary |-> locals[r].group_summary,
                                      members_count |-> member_count(group_id)],
                    !.group_summary = <<>>],
                <<"ERROR get_group_info failed">>)

\* The push of a handler that keeps what it fetched on the bot instance, where
\* the requests handled at the same time share it.
PushMessage_shared_locals(r, ok) ==
    LET shared == locals[CHOOSE q \in Requests :
                            /\ locals[q].sender_profile # <<>>
                            /\ \A p \in Requests : locals[p].sender_profile # <<>> => q <= p]
        forward_text ==
            create_message_text("forward", shared.sender_profile,
                                shared.source_group.summary,
                                CurrentEvent(r).message.text)
    IN  ApiStep(r, "push_message",
                Call(r, "push_message", config.TARGET_GROUP_ID, "", forward_text, ok),
                locals[r], <<>>)

\* forward_text is composed and pushed to the target group.
PushMessage(r, ok) ==
    LET forward_text ==
            create_message_text("forward", locals[r].sender_profile,
                                locals[r].source_group.summary,
                                CurrentEvent(r).message.text)
    IN  ApiStep(r, "push_message",
                Call(r, "push_message", config.TARGET_GROUP_ID, "", forward_text, ok),
                locals[r], <<>>)

\* reply_text is composed and sent with the event's reply token
\* (reply_message_with_http_info).
ReplyMessage(r, ok) ==
    LET reply_text ==
            create_message_text("reply", locals[r].sender_profile,
                                locals[r].target_group.summary,
                                CurrentEvent(r).message.text)
    IN  ApiStep(r, "reply_message",
                Call(r, "reply_message", CurrentEvent(r).reply_token, "", reply_text, ok),
                locals[r], <<>>)

(***************************************************************************)
(* Specifications.                                                         *)
(***************************************************************************)
\* A step of the handling of request r after it was received; the platform
\* calls end as `results` allows (TRUE: the call returns, FALSE: it raises).
Step(r, results) ==
    \/ InvalidSignature(r)
    \/ ParseError(r)
    \/ Parsed(r)
    \/ HandleMessage(r)
    \/ SkipEvent(r)
    \/ ReturnOK(r)
    \/ SourceCheck(r)
    \/ FilterCheck(r)
    \/ \E ok \in results : GetSourceSummary(r, ok)
    \/ \E ok \in results : GetSourceMemberCount(r, ok)
    \/ \E ok \in results : GetSenderProfile(r, ok)
    \/ \E ok \in results : GetTargetSummary(r, ok)
    \/ \E ok \in results : GetTargetMemberCount(r, ok)
    \/ \E ok \in results : PushMessage(r, ok)
    \/ \E ok \in results : ReplyMessage(r, ok)

\* One request, handled alone; every platform call may return or raise.
Next ==
    \/ \E body \in Bodies : \E signature \in Signatures(body) : Receive(1, body, signature)
    \/ Step(1, BOOLEAN)

Spec == Init /\ [][Next]_vars

\* The same request delivered again: request r + 1 arrives when request r has
\* been answered, with the body and the signature of request r.
Replay(r) ==
    /\ r > 1
    /\ pc[r - 1] = "responded"
    /\ Receive(r, request[r - 1].body, request[r - 1].signature)

\* Deliveries one after the other, each a replay of the one before, with a
\* platform whose calls all return.
NextReplay ==
    \/ \E body \in Bodies : \E signature \in Signatures(body) : Receive(1, body, signature)
    \/ \E r \in Requests : Replay(r)
    \/ \E r \in Requests : Step(r, {TRUE})

SpecReplay == Init /\ [][NextReplay]_vars

\* One request, handled alone, by a thread that keeps running and a platform
\* whose calls all return or raise in the end: a step of the handling that
\* can be taken is taken.
SpecLive == Init /\ [][Next]_vars /\ WF_vars(Step(1, BOOLEAN))

\* The deliveries the server handles at the same time: a message to forward,
\* an image followed by another message to forward, a body that does not
\* parse, and a message to forward without signature header.
ConcurrentDeliveries ==
    { [body |-> [well_formed |-> TRUE, events |-> <<EvForward1>>],
       signature |-> Sign(BotConfig.CHANNEL_SECRET, [well_formed |-> TRUE, events |-> <<EvForward1>>])],
      [body |-> [well_formed |-> TRUE, events |-> <<EvImage, EvForward2>>],
       signature |-> Sign(BotConfig.CHANNEL_SECRET, [well_formed |-> TRUE, events |-> <<EvImage, EvForward2>>])],
      [body |-> MalformedBody,
       signature |-> Sign(BotConfig.CHANNEL_SECRET, MalformedBody)],
      [body |-> [well_formed |-> TRUE, events |-> <<EvForward1>>],
       signature |-> NoSignature] }

\* The server handles the requests in one thread each (app.run): their steps
\* interleave in every order.
NextConcurrent ==
    \/ \E r \in Requests : \E d \in ConcurrentDeliveries : Receive(r, d.body, d.signature)
    \/ \E r \in Requests : Step(r, BOOLEAN)

SpecConcurrent == Init /\ [][NextConcurrent]_vars

(***************************************************************************)
(* Direct calls of should_forward_message.                                 *)
(***************************************************************************)
Chunks ==
    { START_KEYWORD,
      lower(START_KEYWORD),
      SubSeq(START_KEYWORD, 1, Len(START_KEYWORD) - 1),
      OTHER_KEYWORDS[1],
      OTHER_KEYWORDS[2],
      <<"V", "I", "D", "E", "O", ":">>,
      <<"v", "i", "D">>,
      <<"E", "o", ":">>,
      <<"x">> }

RECURSIVE Texts(_)
Texts(n) ==
    IF n = 0 THEN {<<>>}
    ELSE LET shorter == Texts(n - 1)
         IN  shorter \cup {chunk \o t : chunk \in Chunks, t \in shorter}

InitFilter ==
    /\ config = BotConfig
    /\ pc = [r \in Requests |-> "idle"]
    /\ request = [r \in Requests |-> NoRequest]
    /\ idx = [r \in Requests |-> 0]
    /\ locals = [r \in Requests |-> NoLocals]
    /\ calls = [r \in Requests |-> <<>>]
    /\ logs = [r \in Requests |-> <<>>]
    /\ outcomes = [r \in Requests |-> <<>>]
    /\ status = [r \in Requests |-> 0]
    /\ filter_text \in Texts(MaxChunks)
    /\ filter_pc = "call"
    /\ filter_result = FALSE

CallShouldForward ==
    /\ filter_pc = "call"
    /\ filter_result' = should_forward_message(filter_text)
    /\ filter_pc' = "returned"
    /\ UNCHANGED <<filter_text, reqvars>>

NextFilter == CallShouldForward

SpecFilter == InitFilter /\ [][NextFilter]_vars

(***************************************************************************)
(* Vocabulary of the properties.                                           *)
(***************************************************************************)
\* Two characters are the same letter when they are equal or the upper and
\* the lower case of one letter.
SameLetter(a, b) ==
    \/ a = b
    \/ (a \in DOMAIN UpperToLower /\ UpperToLower[a] = b)
    \/ (b \in DOMAIN UpperToLower /\ UpperToLower[b] = a)

EqualIgnoringCase(s, t) ==
    /\ Len(s) = Len(t)
    /\ \A i \in 1..Len(s) : SameLetter(s[i], t[i])

StartsWithIgnoringCase(t, keyword) ==
    /\ Len(keyword) <= Len(t)
    /\ EqualIgnoringCase(SubSeq(t, 1, Len(keyword)), keyword)

ContainsIgnoringCase(t, keyword) ==
    \E i \in 1..(Len(t) - Len(keyword) + 1) :
        EqualIgnoringCase(SubSeq(t, i, i + Len(keyword) - 1), keyword)

\* The text starts with the start keyword and contains every required substring.
MatchesFilter(t) ==
    /\ StartsWithIgnoringCase(t, START_KEYWORD)
    /\ \A n \in 1..Len(OTHER_KEYWORDS) : ContainsIgnoringCase(t, OTHER_KEYWORDS[n])

EventsOf(r) == request[r].body.events

\* The positions of the events of request r.
Positions(r) == 1..Len(EventsOf(r))

\* Event i of request r went through handler.handle.
Handled(r, i) == i <= Len(outcomes[r])

FromSourceGroup(e) ==
    /\ e.source.type = "group"
    /\ e.source.group_id = BotConfig.SOURCE_GROUP_ID

\* A text message that passes the source guard and the filter guard.
PassesBothGuards(e) ==
    /\ is_text_message(e)
    /\ FromSourceGroup(e)
    /\ MatchesFilter(e.message.text)

MetadataOps == {"get_group_summary", "get_group_member_count", "get_group_member_profile"}

DeliveryOps == {"push_message", "reply_message"}

\* The calls made for event i of request r, all of them or those of one operation.
EventCalls(r, i) == SelectSeq(calls[r], LAMBDA c : c.ev = i)

OpCalls(r, i, op) == SelectSeq(calls[r], LAMBDA c : c.ev = i /\ c.op = op)

\* The positions in calls[r] of the calls of an operation for event i.
OpPositions(r, i, op) ==
    {k \in 1..Len(calls[r]) : calls[r][k].ev = i /\ calls[r][k].op = op}

AllCallsSucceeded(r, i) == \A k \in 1..Len(calls[r]) : calls[r][k].ev = i => calls[r][k].ok

Delivered(r, i, op) == \E k \in OpPositions(r, i, op) : calls[r][k].ok

\* One push to the target group, one reply with the event's token, in this order.
OnePushThenOneReply(r, i) ==
    /\ Len(OpCalls(r, i, "push_message")) = 1
    /\ Len(OpCalls(r, i, "reply_message")) = 1
    /\ OpCalls(r, i, "push_message")[1].arg = BotConfig.TARGET_GROUP_ID
    /\ OpCalls(r, i, "reply_message")[1].arg = EventsOf(r)[i].reply_token
    /\ \A p \in OpPositions(r, i, "push_message") :
           \A q \in OpPositions(r, i, "reply_message") : p < q

(***************************************************************************)
(* Properties.                                                             *)
(***************************************************************************)
\* C1: should_forward_message(t) is true exactly when t, compared without
\* regard to case, starts with the start keyword and contains every required
\* substring, in any order; an empty list of required substrings is satisfied
\* by every text.
C1_FilterIffKeywords ==
    filter_pc = "returned" =>
        /\ filter_result <=> MatchesFilter(filter_text)
        /\ all_keywords_in(<<>>, filter_text)

\* A text with the second required substring in upper case was accepted.
C1_Witness ==
    /\ filter_pc = "returned"
    /\ filter_result
    /\ contains(<<"V", "I", "D", "E", "O", ":">>, filter_text)

\* C2, as stated: every handled event that passes both guards got exactly one
\* push and exactly one reply, the push first.
C2_Original ==
    \A r \in Requests : \A i \in Positions(r) :
        (Handled(r, i) /\ PassesBothGuards(EventsOf(r)[i])) => OnePushThenOneReply(r, i)

\* C2, amended: a handled event that passes both guards and whose platform
\* calls all succeeded got exactly one push to the target group and exactly
\* one reply with its reply token, the push before the reply; whatever the
\* calls did, there is at most one push and at most one reply, a reply only
\* after a push that succeeded, and no reply attempt after a failed push.
C2_OnePushThenReply ==
    \A r \in Requests : \A i \in Positions(r) :
        PassesBothGuards(EventsOf(r)[i]) =>
            /\ (Handled(r, i) /\ AllCallsSucceeded(r, i)) => OnePushThenOneReply(r, i)
            /\ Len(OpCalls(r, i, "push_message")) <= 1
            /\ Len(OpCalls(r, i, "reply_message")) <= 1
            /\ \A q \in OpPositions(r, i, "reply_message") :
                   \E p \in OpPositions(r, i, "push_message") : p < q /\ calls[r][p].ok

\* An event that passes both guards was handled with every call succeeding.
C2_Witness ==
    \E r \in Requests : \E i \in Positions(r) :
        /\ Handled(r, i)
        /\ PassesBothGuards(EventsOf(r)[i])
        /\ AllCallsSucceeded(r, i)
        /\ Delivered(r, i, "reply_message")

\* C3: an event for which a metadata retrieval failed (group summary or
\* member count of either group, or the sender's profile) has no push and no
\* reply call at all.
C3_NoDeliveryAfterMetadataFailure ==
    \A r \in Requests : \A i \in Positions(r) :
        (\E k \in 1..Len(calls[r]) :
            /\ calls[r][k].ev = i
            /\ calls[r][k].op \in MetadataOps
            /\ ~calls[r][k].ok)
        => \A k \in 1..Len(calls[r]) :
               calls[r][k].ev = i => calls[r][k].op \notin DeliveryOps

\* A request was answered after the member count of the target group, the
\* last metadata call, failed for one of its events.
C3_Witness ==
    \E r \in Requests :
        /\ pc[r] = "responded"
        /\ \E k \in 1..Len(calls[r]) :
               /\ calls[r][k].op = "get_group_member_count"
               /\ calls[r][k].arg = BotConfig.TARGET_GROUP_ID
               /\ ~calls[r][k].ok

\* C4, as stated: when the handler has finished with an event, the push was
\* delivered if and only if the reply was.
C4_Original ==
    \A r \in Requests : \A i \in Positions(r) :
        Handled(r, i) => (Delivered(r, i, "push_message") <=> Delivered(r, i, "reply_message"))

\* C4, amended: the reply is delivered only if the push was: no event has a
\* delivered reply without a delivered push.
C4_ReplyOnlyAfterPush ==
    \A r \in Requests : \A i \in Positions(r) :
        Delivered(r, i, "reply_message") => Delivered(r, i, "push_message")

\* The handler finished with an event whose reply was delivered.
C4_Witness ==
    \E r \in Requests : \E i \in Positions(r) :
        Handled(r, i) /\ Delivered(r, i, "reply_message")

\* C5: a text message from an individual chat causes no platform call, and
\* process_message returns without an error, whatever the text.
C5_UserSourceNoCalls ==
    \A r \in Requests : \A i \in Positions(r) :
        (is_text_message(EventsOf(r)[i]) /\ EventsOf(r)[i].source.type = "user") =>
            /\ EventCalls(r, i) = <<>>
            /\ Handled(r, i) => outcomes[r][i] = "Done"

\* A message from an individual chat whose text matches the filter was handled.
C5_Witness ==
    \E r \in Requests : \E i \in Positions(r) :
        /\ Handled(r, i)
        /\ is_text_message(EventsOf(r)[i])
        /\ EventsOf(r)[i].source.type = "user"
        /\ MatchesFilter(EventsOf(r)[i].message.text)

\* C6: a text message from a group other than SOURCE_GROUP_ID causes no
\* platform call, also when its text matches the filter.
C6_OtherGroupNoCalls ==
    \A r \in Requests : \A i \in Positions(r) :
        LET e == EventsOf(r)[i]
        IN  (/\ is_text_message(e)
             /\ e.source.type = "group"
             /\ e.source.group_id # BotConfig.SOURCE_GROUP_ID)
            => EventCalls(r, i) = <<>>

\* A message from another group whose text matches the filter was handled.
C6_Witness ==
    \E r \in Requests : \E i \in Positions(r) :
        /\ Handled(r, i)
        /\ is_text_message(EventsOf(r)[i])
        /\ EventsOf(r)[i].source.type = "group"
        /\ EventsOf(r)[i].source.group_id # BotConfig.SOURCE_GROUP_ID
        /\ should_forward_message(EventsOf(r)[i].message.text)

\* C7: a text message from the source group whose text fails
\* should_forward_message causes no platform call, and process_message
\* returns without an error.
C7_FilteredOutNoCalls ==
    \A r \in Requests : \A i \in Positions(r) :
        LET e == EventsOf(r)[i]
        IN  (/\ is_text_message(e)
             /\ FromSourceGroup(e)
             /\ ~should_forward_message(e.message.text))
            => /\ EventCalls(r, i) = <<>>
               /\ Handled(r, i) => outcomes[r][i] = "Done"

\* One request was answered after two messages from the source group were
\* handled: one that lacks a required substring behind the start keyword, and
\* one that has the required substrings but not the start keyword in front.
C7_Witness ==
    \E r \in Requests :
        /\ pc[r] = "responded"
        /\ \E i \in Positions(r) :
               /\ Handled(r, i) /\ FromSourceGroup(EventsOf(r)[i])
               /\ is_text_message(EventsOf(r)[i])
               /\ StartsWithIgnoringCase(EventsOf(r)[i].message.text, START_KEYWORD)
               /\ ~MatchesFilter(EventsOf(r)[i].message.text)
        /\ \E j \in Positions(r) :
               /\ Handled(r, j) /\ FromSourceGroup(EventsOf(r)[j])
               /\ is_text_message(EventsOf(r)[j])
               /\ ~StartsWithIgnoringCase(EventsOf(r)[j].message.text, START_KEYWORD)
               /\ \A n \in 1..Len(OTHER_KEYWORDS) :
                      ContainsIgnoringCase(EventsOf(r)[j].message.text, OTHER_KEYWORDS[n])

\* The signature header is the channel secret's signature of the body received.
GenuineSignature(r) ==
    request[r].signature = Sign(BotConfig.CHANNEL_SECRET, request[r].body)

\* C8: a request whose signature does not verify is answered 400 and nothing
\* else happens for it: no event is dispatched and no platform call is made.
C8_BadSignatureRejected ==
    \A r \in Requests :
        (pc[r] # "idle" /\ ~GenuineSignature(r)) =>
            /\ pc[r] \in {"callback", "responded"}
            /\ pc[r] = "responded" => status[r] = 400
            /\ idx[r] = 0
            /\ outcomes[r] = <<>>
            /\ calls[r] = <<>>

\* A body with a message that would be forwarded, changed after it was
\* signed, was answered 400.
C8_Witness ==
    \E r \in Requests :
        /\ pc[r] = "responded"
        /\ status[r] = 400
        /\ request[r].signature = Sign(BotConfig.CHANNEL_SECRET, Untampered(request[r].body))
        /\ \E i \in Positions(r) : PassesBothGuards(EventsOf(r)[i])

\* C9: whatever the forwarding handler does with the events of a verified
\* body (guard abort, metadata, push or reply failure), nothing leaves
\* process_message: the dispatch goes on, the response is never turned into
\* a 500, and the verified, parsed request is answered 200.
C9_HandlerOutcomeNeverChangesResponse ==
    \A r \in Requests :
        /\ \A i \in 1..Len(outcomes[r]) : outcomes[r][i] \in {"Done", "Failed", "NoHandler"}
        /\ (pc[r] \notin {"idle", "callback"} /\ GenuineSignature(r) /\ request[r].body.well_formed)
               => /\ status[r] \in {0, 200}
                  /\ pc[r] = "responded" => (status[r] = 200 /\ Len(outcomes[r]) = Len(EventsOf(r)))

\* A request was answered 200 although the push failed for one of its events
\* and the reply for another.
C9_Witness ==
    \E r \in Requests :
        /\ pc[r] = "responded"
        /\ status[r] = 200
        /\ \E k \in 1..Len(calls[r]) : calls[r][k].op = "push_message" /\ ~calls[r][k].ok
        /\ \E k \in 1..Len(calls[r]) : calls[r][k].op = "reply_message" /\ ~calls[r][k].ok

\* The pushes and the replies of a request, without the outcome of the call.
Sent(r, op) ==
    LET made == SelectSeq(calls[r], LAMBDA c : c.op = op)
    IN  [k \in 1..Len(made) |-> <<made[k].ev, made[k].arg, made[k].text>>]

Forwardable(r) == {i \in Positions(r) : PassesBothGuards(EventsOf(r)[i])}

\* C10: when a verified body is delivered again with the same signature and
\* every platform call succeeds, the second delivery is forwarded like the
\* first: each makes one push to the target group and one reply for every
\* event that passes the guards, so that two deliveries make two forwards.
C10_ReplayForwardsAgain ==
    \A r \in Requests :
        (/\ r > 1
         /\ pc[r] = "responded" /\ pc[r - 1] = "responded"
         /\ request[r] = request[r - 1]
         /\ GenuineSignature(r) /\ request[r].body.well_formed
         /\ \A q \in {r - 1, r} : \A k \in 1..Len(calls[q]) : calls[q][k].ok)
        => /\ Sent(r, "push_message") = Sent(r - 1, "push_message")
           /\ Sent(r, "reply_message") = Sent(r - 1, "reply_message")
           /\ Len(Sent(r, "push_message")) = Cardinality(Forwardable(r))
           /\ Len(Sent(r, "reply_message")) = Cardinality(Forwardable(r))
           /\ \A k \in 1..Len(Sent(r, "push_message")) :
                  Sent(r, "push_message")[k][2] = BotConfig.TARGET_GROUP_ID

\* A body with one message to forward was delivered twice, and the target
\* group was pushed the same message twice.
C10_Witness ==
    /\ pc[1] = "responded" /\ pc[2] = "responded"
    /\ request[1] = request[2]
    /\ Cardinality(Forwardable(1)) = 1
    /\ Len(Sent(1, "push_message")) + Len(Sent(2, "push_message")) = 2
    /\ Len(Sent(1, "reply_message")) + Len(Sent(2, "reply_message")) = 2
    /\ Sent(1, "push_message") = Sent(2, "push_message")

\* The message pushed to the target group for event e: the forward template
\* with the sender's display name, the source group's name and the text.
ForwardText(e) ==
    <<templates.forward[1]>> \o display_name(e.source.group_id, e.source.user_id)
        \o <<templates.forward[2]>> \o group_name(BotConfig.SOURCE_GROUP_ID)
        \o <<templates.forward[3]>> \o e.message.text

\* The reply sent to the source group for event e: the reply template with
\* the sender's display name, the target group's name and the text.
ReplyText(e) ==
    <<templates.reply[1]>> \o display_name(e.source.group_id, e.source.user_id)
        \o <<templates.reply[2]>> \o group_name(BotConfig.TARGET_GROUP_ID)
        \o <<templates.reply[3]>> \o e.message.text

\* The platform calls of a handler that forwards event e, at position i of its
\* body, alone and without a failure.
SoloCalls(e, i) ==
    << [ev |-> i, op |-> "get_group_summary", arg |-> e.source.group_id,
        user |-> "", text |-> <<>>, ok |-> TRUE],
       [ev |-> i, op |-> "get_group_member_count", arg |-> e.source.group_id,
        user |-> "", text |-> <<>>, ok |-> TRUE],
       [ev |-> i, op |-> "get_group_member_profile", arg |-> e.source.group_id,
        user |-> e.source.user_id, text |-> <<>>, ok |-> TRUE],
       [ev |-> i, op |-> "get_group_summary", arg |-> BotConfig.TARGET_GROUP_ID,
        user |-> "", text |-> <<>>, ok |-> TRUE],
       [ev |-> i, op |-> "get_group_member_count", arg |-> BotConfig.TARGET_GROUP_ID,
        user |-> "", text |-> <<>>, ok |-> TRUE],
       [ev |-> i, op |-> "push_message", arg |-> BotConfig.TARGET_GROUP_ID,
        user |-> "", text |-> ForwardText(e), ok |-> TRUE],
       [ev |-> i, op |-> "reply_message", arg |-> e.reply_token,
        user |-> "", text |-> ReplyText(e), ok |-> TRUE] >>

\* The events a request can carry that pass both guards.
GuardPassingEvents == {e \in Events : PassesBothGuards(e)}

\* The calls made for event i of request r are those of a handler that works
\* alone, up to the first call that failed, and the event ended accordingly.
AsIfAlone(r, i) ==
    LET e == EventsOf(r)[i]
        made == EventCalls(r, i)
        solo == SoloCalls(e, i)
    IN  /\ made = <<>> \/ e \in GuardPassingEvents
        /\ Len(made) <= Len(solo)
        /\ \A k \in 1..Len(made) :
               /\ [made[k] EXCEPT !.ok = TRUE] = solo[k]
               /\ k < Len(made) => made[k].ok
        /\ (Handled(r, i) /\ e \in GuardPassingEvents) =>
               /\ made # <<>>
               /\ Len(made) = Len(solo) \/ ~made[Len(made)].ok
               /\ outcomes[r][i] = IF made[Len(made)].ok THEN "Done" ELSE "Failed"

\* C11: when requests are handled at the same time, in every interleaving of
\* their steps each event gets the platform calls it would get alone
\* (metadata, then push, then reply, with its own text, sender and reply
\* token), each request gets the answer its own body and signature call for,
\* and the configuration stays what it was at start.
C11_HandlersIndependent ==
    /\ config = BotConfig
    /\ \A r \in Requests :
           /\ \A i \in Positions(r) : AsIfAlone(r, i)
           /\ \A k \in 1..Len(calls[r]) : calls[r][k].ev \in Positions(r)
           /\ pc[r] = "responded" =>
                  status[r] = IF ~GenuineSignature(r) THEN 400
                              ELSE IF ~request[r].body.well_formed THEN 500 ELSE 200

\* Two requests with different messages are in their handlers at the same
\* time, one before its reply and one before the retrieval of its sender.
C11_Witness ==
    \E r, q \in Requests :
        /\ r # q
        /\ pc[r] = "reply_message"
        /\ pc[q] = "sender_profile"
        /\ CurrentEvent(r) # CurrentEvent(q)

\* The handling of request r is inside process_message.
InProcessMessage(r) == pc[r] \notin {"idle", "callback", "handle", "responded"}

\* C12: an event of a verified body that is not a text message never reaches
\* the forwarding handler: it causes no platform call and no error, the
\* dispatch passes over it, and the request is answered 200.
C12_OtherEventsIgnored ==
    \A r \in Requests : \A i \in Positions(r) :
        LET e == EventsOf(r)[i]
        IN  (e.type # "message" \/ e.message.type # "text") =>
                /\ EventCalls(r, i) = <<>>
                /\ InProcessMessage(r) => idx[r] # i
                /\ Handled(r, i) => outcomes[r][i] = "NoHandler"
                /\ (pc[r] = "responded" /\ GenuineSignature(r) /\ request[r].body.well_formed)
                       => (Handled(r, i) /\ status[r] = 200)

\* A verified body with an image message and a follow event was answered 200.
C12_Witness ==
    \E r \in Requests :
        /\ pc[r] = "responded"
        /\ status[r] = 200
        /\ \E i \in Positions(r) : EventsOf(r)[i].type = "message" /\ EventsOf(r)[i].message.type = "image"
        /\ \E i \in Positions(r) : EventsOf(r)[i].type = "follow"

\* How often a value occurs in a sequence.
Count(seq, x) == Cardinality({k \in 1..Len(seq) : seq[k] = x})

\* C13: when the push to the target group fails, the handler ends failed and
\* logged without a reply attempt; a reply is attempted only after the push
\* for the same event has returned successfully.
C13_NoReplyAfterFailedPush ==
    \A r \in Requests :
        /\ \A i \in Positions(r) :
               /\ \A q \in OpPositions(r, i, "reply_message") :
                      /\ q > 1
                      /\ calls[r][q - 1].ev = i
                      /\ calls[r][q - 1].op = "push_message"
                      /\ calls[r][q - 1].ok
                      /\ calls[r][q].text[1] = templates.reply[1]
               /\ (\E p \in OpPositions(r, i, "push_message") : ~calls[r][p].ok) =>
                      /\ OpCalls(r, i, "reply_message") = <<>>
                      /\ Handled(r, i)
                      /\ outcomes[r][i] = "Failed"
        /\ Count(logs[r], "ERROR process_message failed") = Count(outcomes[r], "Failed")

\* A request was answered after the push failed for one of its events.
C13_Witness ==
    \E r \in Requests :
        /\ pc[r] = "responded"
        /\ \E k \in 1..Len(calls[r]) : calls[r][k].op = "push_message" /\ ~calls[r][k].ok
        /\ Count(logs[r], "ERROR process_message failed") >= 1

\* C14: the message pushed for an event is the forward template with the
\* sender's display name, the source group's name and the original text; the
\* reply is the reply template with the same display name, the target
\* group's name and the same text.  The two differ in the template and the
\* group name only.
C14_MessagesFromTemplates ==
    \A r \in Requests : \A k \in 1..Len(calls[r]) :
        LET c == calls[r][k]
            e == EventsOf(r)[c.ev]
        IN  /\ c.op = "push_message" =>
                   /\ c.text = ForwardText(e)
                   /\ c.arg = BotConfig.TARGET_GROUP_ID
            /\ c.op = "reply_message" =>
                   /\ c.text = ReplyText(e)
                   /\ c.arg = e.reply_token
                   /\ LET pushed == calls[r][k - 1].text
                          sender == display_name(e.source.group_id, e.source.user_id)
                          original == e.message.text
                      IN  /\ SubSeq(c.text, 2, 1 + Len(sender)) = sender
                          /\ SubSeq(pushed, 2, 1 + Len(sender)) = sender
                          /\ SubSeq(c.text, Len(c.text) - Len(original) + 1, Len(c.text)) = original
                          /\ SubSeq(pushed, Len(pushed) - Len(original) + 1, Len(pushed)) = original
                          /\ c.text[1] # pushed[1]

\* A push and a reply were sent for a message of the sender "Bo".
C14_Witness ==
    \E r \in Requests : \E i \in Positions(r) :
        /\ Handled(r, i)
        /\ Delivered(r, i, "push_message")
        /\ Delivered(r, i, "reply_message")
        /\ display_name(EventsOf(r)[i].source.group_id, EventsOf(r)[i].source.user_id) = <<"B", "o">>

\* C15: a request gets one response: 400 exactly when its signature does not
\* verify, 500 exactly when the signature verifies and handler.handle raises
\* another exception (the body does not parse), 200 in every other case; the
\* response, once given, stays.
C15_OneOfThreeResponses ==
    /\ [](\A r \in Requests :
             /\ status[r] \in {0, 200, 400, 500}
             /\ status[r] # 0 <=> pc[r] = "responded"
             /\ pc[r] = "responded" =>
                    /\ status[r] = 400 <=> ~GenuineSignature(r)
                    /\ status[r] = 500 <=> (GenuineSignature(r) /\ ~request[r].body.well_formed)
                    /\ status[r] = 200 <=> (GenuineSignature(r) /\ request[r].body.well_formed))
    /\ [][\A r \in Requests : status[r] # 0 => status'[r] = status[r]]_vars

\* A body that does not parse, with its genuine signature, was answered 500.
C15_Witness ==
    \E r \in Requests :
        /\ pc[r] = "responded"
        /\ status[r] = 500
        /\ GenuineSignature(r)
        /\ ~request[r].body.well_formed

\* C16: the events of a verified body are handled one after the other in the
\* order of the body, and a failure while one is forwarded does not keep the
\* later ones from being handled: every event of an answered request was
\* handled, and an event behind a failed one that passes both guards gets its
\* own push and reply when its own calls succeed.
C16_LaterEventsStillHandled ==
    \A r \in Requests :
        /\ pc[r] \in {"handle", "responded"} /\ idx[r] > 0 => Len(outcomes[r]) = idx[r] - 1
        /\ InProcessMessage(r) => Len(outcomes[r]) = idx[r] - 1
        /\ \A k \in 1..Len(calls[r]) : \A l \in k..Len(calls[r]) : calls[r][k].ev <= calls[r][l].ev
        /\ (pc[r] = "responded" /\ GenuineSignature(r) /\ request[r].body.well_formed) =>
               /\ Len(outcomes[r]) = Len(EventsOf(r))
               /\ \A j \in Positions(r) :
                      (/\ \E i \in 1..(j - 1) : outcomes[r][i] = "Failed"
                       /\ EventsOf(r)[j] \in GuardPassingEvents
                       /\ AllCallsSucceeded(r, j))
                      => /\ OnePushThenOneReply(r, j)
                         /\ outcomes[r][j] = "Done"

\* A body with two messages to forward was answered: the first failed, the
\* second was pushed and replied to.
C16_Witness ==
    \E r \in Requests :
        /\ pc[r] = "responded"
        /\ Len(EventsOf(r)) >= 2
        /\ Len(outcomes[r]) = Len(EventsOf(r))
        /\ EventsOf(r)[1] \in GuardPassingEvents
        /\ outcomes[r][1] = "Failed"
        /\ EventsOf(r)[2] \in GuardPassingEvents
        /\ Delivered(r, 2, "push_message")
        /\ Delivered(r, 2, "reply_message")

\* The place of a step of process_message in the order Received/SourceCheck,
\* FilterCheck, MetadataFetch (five calls), Compose and PushToTarget, Compose
\* and ReplyToSource.
Rank(step) ==
    CASE step = "process_message" -> 1
      [] step = "filter"          -> 2
      [] step = "source_summary"  -> 3
      [] step = "source_count"    -> 4
      [] step = "sender_profile"  -> 5
      [] step = "target_summary"  -> 6
      [] step = "target_count"    -> 7
      [] step = "push_message"    -> 8
      [] step = "reply_message"   -> 9
      [] OTHER                    -> 0

\* A step of a handler goes to a later step for the same event, or leaves
\* process_message with the event recorded as Done or as Failed with an error
\* record; a call it makes was not made before for this event.
ForwardOnly(r) ==
    /\ (InProcessMessage(r) /\ pc'[r] # pc[r]) =>
           \/ /\ Rank(pc'[r]) > Rank(pc[r])
              /\ idx'[r] = idx[r]
              /\ outcomes'[r] = outcomes[r]
           \/ /\ pc'[r] = "handle"
              /\ idx'[r] = idx[r] + 1
              /\ Len(outcomes'[r]) = idx[r]
              /\ SubSeq(outcomes'[r], 1, idx[r] - 1) = outcomes[r]
              /\ \/ outcomes'[r][idx[r]] = "Done"
                 \/ /\ outcomes'[r][idx[r]] = "Failed"
                    /\ Len(logs'[r]) > Len(logs[r])
                    /\ logs'[r][Len(logs'[r])] = "ERROR process_message failed"
    /\ calls'[r] # calls[r] =>
           /\ InProcessMessage(r)
           /\ Len(calls'[r]) = Len(calls[r]) + 1
           /\ SubSeq(calls'[r], 1, Len(calls[r])) = calls[r]
           /\ LET new == calls'[r][Len(calls'[r])]
              IN  /\ new.ev = idx[r]
                  /\ \A k \in 1..Len(calls[r]) :
                         <<calls[r][k].ev, calls[r][k].op, calls[r][k].arg>>
                             # <<new.ev, new.op, new.arg>>

\* C17: provided every platform call returns or fails in the end, the
\* handling of every event ends as Done or as Failed (logged); on the way it
\* only moves forward through its steps, no step is taken twice and no call
\* is made again, and no event stays in a step between.
C17_HandlerTerminatesForward ==
    /\ \A r \in Requests : InProcessMessage(r) ~> ~InProcessMessage(r)
    /\ [][\A r \in Requests : ForwardOnly(r)]_vars

\* A request was answered after one of its events ended Failed behind the
\* push and another ended Done with its reply delivered.
C17_Witness ==
    \E r \in Requests :
        /\ pc[r] = "responded"
        /\ \E i \in Positions(r) :
               /\ Handled(r, i)
               /\ outcomes[r][i] = "Failed"
               /\ OpCalls(r, i, "push_message") # <<>>
        /\ \E i \in Positions(r) :
               /\ Handled(r, i)
               /\ outcomes[r][i] = "Done"
               /\ Delivered(r, i, "reply_message")

====
